---- MODULE Spec2Model ----
(***************************************************************************)
(* A model of the disk usage analyzer of disk-viz-viewer                   *)
(* (internal/disk): FormatSize and its helpers, GetDirSize,                *)
(* getChildrenInfo and the concurrent AnalyzeDiskUsage.                    *)
(*                                                                         *)
(* Byte counts.  The code's sizes are int64 and reach 2^40 (TB) and more,  *)
(* beyond the integers TLC evaluates.  A byte count is therefore held in   *)
(* base 1024, least significant digit first:                               *)
(*      <<b, kb, mb, gb, tb>>  stands for                                  *)
(*      b + kb*1024 + mb*1024^2 + gb*1024^3 + tb*1024^4                    *)
(* with b, kb, mb, gb in 0..1023 and tb >= 0.  All byte counts of the      *)
(* model are below 2^53, where float64 holds them, their quotient by a     *)
(* power of two and a hundredfold of the fractional part exactly, so the   *)
(* float64 arithmetic of FormatSize is modelled by exact arithmetic.       *)
(*                                                                         *)
(* File system.  A node is a record                                        *)
(*      [isDir, size, statOk, listOk, kids]                                *)
(* size is what Lstat reports as the node's length, statOk whether         *)
(* Stat/Lstat/DirEntry.Info of the node succeeds, listOk whether ReadDir   *)
(* of the node succeeds, kids the listing of a directory in ReadDir's      *)
(* order.  Names and paths are not modelled: an entry is known by its      *)
(* place in its parent's listing.  The file system does not change during  *)
(* a call.                                                                 *)
(***************************************************************************)
EXTENDS Integers, Sequences, FiniteSets, Bags, TLC

VARIABLES
    fs,         \* the node the root path names (fixed during the call)
    depth,      \* the depth argument of AnalyzeDiskUsage
    pc,         \* where the calling goroutine of AnalyzeDiskUsage stands
    idx,        \* number of entries the range loop has launched a goroutine for
    tasks,      \* bag of the live per-child goroutines (their entry, position, locals)
    items,      \* items: the shared slice the goroutines append to
    totalSize,  \* totalSize: the shared running total
    mu,         \* mu: TRUE while the mutex is locked
    wg,         \* wg: the WaitGroup's counter
    semaphore,  \* semaphore: number of values in the buffered channel
    result,     \* the *UsageResult returned (NoResult before the return)
    err,        \* the error returned ("" is nil)
    fmtIn,      \* the argument of a direct FormatSize call
    fmtOut,     \* what that call returned (NotCalled before it)
    req,        \* the HTTP request handleAnalyze serves (NoRequest without a server)
    resp,       \* the HTTP response it wrote (NoResponse before it)
    other       \* the locals of a second, concurrent AnalyzeDiskUsage call (NoCall if none)

vars == <<fs, depth, pc, idx, tasks, items, totalSize, mu, wg, semaphore,
          result, err, fmtIn, fmtOut, req, resp, other>>

-----------------------------------------------------------------------------
(* Byte counts in base 1024 *)

KB == 1024

\* The number of base-1024 digits kept: B, KB, MB, GB and TB (the top digit is unbounded).
NumDigits == 5

Zero64 == <<0, 0, 0, 0, 0>>

\* The byte count n, for n an integer below 2^31.
Bytes(n) ==
    <<n % KB, (n \div KB) % KB, (n \div (KB * KB)) % KB,
      n \div (KB * KB * KB), 0>>

\* bytes >= 1024^k
AtLeastUnit(bytes, k) == \E j \in (k + 1)..NumDigits : bytes[j] # 0

RECURSIVE UpperValue(_, _)
\* The digits above place k, as a number: floor(bytes / 1024^k).
UpperValue(bytes, k) ==
    IF k >= NumDigits THEN 0
    ELSE bytes[k + 1] + KB * UpperValue(bytes, k + 1)

\* float64(bytes)/float64(1024^k): its integer part and the k digits of its fraction.
ScaledFloat(bytes, k) ==
    [int |-> UpperValue(bytes, k), frac |-> SubSeq(bytes, 1, k)]

\* f == float64(int64(f))
IsWhole(f) == \A j \in 1..Len(f.frac) : f.frac[j] = 0

RECURSIVE FracTimes100(_, _)
\* int64((f - float64(intPart)) * 100): the fraction's first k digits, in hundredths,
\* truncated.  floor((m + x)/1024) = floor((m + floor(x))/1024) for an integer m.
FracTimes100(frac, k) ==
    IF k = 0 THEN 0
    ELSE (frac[k] * 100 + FracTimes100(frac, k - 1)) \div KB

-----------------------------------------------------------------------------
(* Size formatting *)

DigitChar(d) == <<"0", "1", "2", "3", "4", "5", "6", "7", "8", "9">>[d + 1]

RECURSIVE DigitsOf(_)
DigitsOf(n) == IF n = 0 THEN "" ELSE DigitsOf(n \div 10) \o DigitChar(n % 10)

intToString(n) ==
    IF n = 0 THEN "0"
    ELSE IF n < 0 THEN "-" \o DigitsOf(-n)
    ELSE DigitsOf(n)

padZero(n) ==
    LET s == intToString(n)
    IN  IF Len(s) = 1 THEN "0" \o s ELSE s

floatToString(f) ==
    LET intPart  == f.int
        fracPart == FracTimes100(f.frac, Len(f.frac))
    IN  IF fracPart > 0
        THEN intToString(intPart) \o "." \o padZero(fracPart)
        ELSE intToString(intPart)

\* A whole value is rendered as the one character '0' + int(f)%10.
formatFloat(f) ==
    IF IsWhole(f) THEN DigitChar(f.int % 10)
    ELSE floatToString(f)

FormatSize(bytes) ==
    IF AtLeastUnit(bytes, 4) THEN formatFloat(ScaledFloat(bytes, 4)) \o " TB"
    ELSE IF AtLeastUnit(bytes, 3) THEN formatFloat(ScaledFloat(bytes, 3)) \o " GB"
    ELSE IF AtLeastUnit(bytes, 2) THEN formatFloat(ScaledFloat(bytes, 2)) \o " MB"
    ELSE IF AtLeastUnit(bytes, 1) THEN formatFloat(ScaledFloat(bytes, 1)) \o " KB"
    ELSE formatFloat(ScaledFloat(bytes, 0)) \o " B"

-----------------------------------------------------------------------------
(* Slices and records *)

\* A Go slice: nil, or a (possibly empty) array of elements.
NilSlice == [nil |-> TRUE, arr |-> <<>>]

MakeSlice(s) == [nil |-> FALSE, arr |-> s]

\* DirInfo, without Name and Path.
MkDirInfo(size, isDir, children) ==
    [size |-> size, sizeStr |-> FormatSize(Bytes(size)), isDir |-> isDir,
     children |-> children]

RECURSIVE InsertDesc(_, _)
\* x put into s, which is sorted by size descending, behind every element not smaller.
InsertDesc(s, x) ==
    IF s = <<>> THEN <<x>>
    ELSE IF s[1].size >= x.size THEN <<s[1]>> \o InsertDesc(Tail(s), x)
    ELSE <<x>> \o s

RECURSIVE InsertAsc(_, _)
InsertAsc(s, x) ==
    IF s = <<>> THEN <<x>>
    ELSE IF s[1].size <= x.size THEN <<s[1]>> \o InsertAsc(Tail(s), x)
    ELSE <<x>> \o s

RECURSIVE SortBySizeAsc(_)
\* The sort with the comparison turned round: items[i].Size < items[j].Size.
SortBySizeAsc(s) ==
    IF s = <<>> THEN <<>>
    ELSE InsertAsc(SortBySizeAsc(SubSeq(s, 1, Len(s) - 1)), s[Len(s)])

RECURSIVE SortBySizeDesc(_)
\* sort.Slice(s, func(i, j) bool { return s[i].Size > s[j].Size }).  sort.Slice is a
\* deterministic function of its input that promises no order among equal sizes; the
\* permutation taken here keeps equal sizes in their input order.
SortBySizeDesc(s) ==
    IF s = <<>> THEN <<>>
    ELSE InsertDesc(SortBySizeDesc(SubSeq(s, 1, Len(s) - 1)), s[Len(s)])

-----------------------------------------------------------------------------
(* The walks below the root *)

RECURSIVE SumDirectFiles(_, _)
SumDirectFiles(kids, k) ==
    IF k = 0 THEN 0
    ELSE SumDirectFiles(kids, k - 1)
             + (IF kids[k].isDir \/ ~kids[k].statOk THEN 0 ELSE kids[k].size)

\* A sizing that stops where the expansion stops: the directory's own files only.
GetDirSizeTopLevel(node) ==
    IF ~node.statOk THEN 0
    ELSE IF ~node.isDir THEN node.size
    ELSE IF ~node.listOk THEN 0
    ELSE SumDirectFiles(node.kids, Len(node.kids))

RECURSIVE GetDirSizeCountingDirectories(_)
RECURSIVE SumCountingDirectories(_, _)
\* The walk without the !info.IsDir() test: a directory's own length is added too.
GetDirSizeCountingDirectories(node) ==
    IF ~node.statOk THEN 0
    ELSE IF ~node.isDir THEN node.size
    ELSE IF ~node.listOk THEN node.size
    ELSE node.size + SumCountingDirectories(node.kids, Len(node.kids))

SumCountingDirectories(kids, k) ==
    IF k = 0 THEN 0
    ELSE SumCountingDirectories(kids, k - 1) + GetDirSizeCountingDirectories(kids[k])

RECURSIVE WalkAborting(_)
RECURSIVE WalkAbortingIn(_, _)
\* The walk with a callback that returns the error it is given: the walk ends at the
\* first node that cannot be accessed, with what it has added so far.
WalkAborting(node) ==
    IF ~node.statOk THEN [size |-> 0, stop |-> TRUE]
    ELSE IF ~node.isDir THEN [size |-> node.size, stop |-> FALSE]
    ELSE IF ~node.listOk THEN [size |-> 0, stop |-> TRUE]
    ELSE WalkAbortingIn(node.kids, 1)

WalkAbortingIn(kids, i) ==
    IF i > Len(kids) THEN [size |-> 0, stop |-> FALSE]
    ELSE LET r == WalkAborting(kids[i])
         IN  IF r.stop THEN r
             ELSE LET rest == WalkAbortingIn(kids, i + 1)
                  IN  [size |-> r.size + rest.size, stop |-> rest.stop]

GetDirSizeAborting(node) == WalkAborting(node).size

RECURSIVE SumSizes(_, _)
RECURSIVE GetDirSize(_)
\* filepath.Walk with a callback that adds info.Size() of every non-directory and
\* returns nil on every error: a node whose Lstat fails and a directory whose listing
\* fails are passed to the callback with err != nil and add nothing.
GetDirSize(node) ==
    IF ~node.statOk THEN 0
    ELSE IF ~node.isDir THEN node.size
    ELSE IF ~node.listOk THEN 0
    ELSE SumSizes(node.kids, Len(node.kids))

\* The walk of the first k entries of a listing.
SumSizes(kids, k) ==
    IF k = 0 THEN 0 ELSE SumSizes(kids, k - 1) + GetDirSize(kids[k])

\* entry.Info(): the entry's length, and 0 when Info fails.
EntrySize(e) == IF e.statOk THEN e.size ELSE 0

RECURSIVE ChildEntries(_, _, _)
RECURSIVE getChildrenInfo(_, _)
\* getChildrenInfo(path, depth), for the directory node at path.
getChildrenInfo(node, d) ==
    IF ~node.listOk THEN NilSlice
    ELSE MakeSlice(SortBySizeDesc(ChildEntries(node.kids, Len(node.kids), d)))

\* The loop body of getChildrenInfo over the first k entries, in listing order.
ChildEntries(kids, k, d) ==
    IF k = 0 THEN <<>>
    ELSE LET entry == kids[k]
             size == IF entry.isDir THEN GetDirSize(entry) ELSE EntrySize(entry)
             subChildren ==
                 IF entry.isDir /\ d > 1 THEN getChildrenInfo(entry, d - 1)
                 ELSE NilSlice
         IN  Append(ChildEntries(kids, k - 1, d),
                    MkDirInfo(size, entry.isDir, subChildren))

-----------------------------------------------------------------------------
(* The file systems and depths a call is checked on *)

File(n) == [isDir |-> FALSE, size |-> n, statOk |-> TRUE, listOk |-> FALSE, kids |-> <<>>]

\* A file whose Lstat fails (its directory is listable, not searchable).
NoStatFile(n) == [File(n) EXCEPT !.statOk = FALSE]

\* A directory; 4 stands for the length Lstat reports for the directory itself.
Dir(kids) == [isDir |-> TRUE, size |-> 4, statOk |-> TRUE, listOk |-> TRUE, kids |-> kids]

\* A directory that cannot be listed.
LockedDir(kids) == [Dir(kids) EXCEPT !.listOk = FALSE]

\* A directory that can be neither stat'ed nor listed.
NoStatDir(kids) == [Dir(kids) EXCEPT !.statOk = FALSE, !.listOk = FALSE]

\* A path that does not exist.
Missing == [isDir |-> FALSE, size |-> 0, statOk |-> FALSE, listOk |-> FALSE, kids |-> <<>>]

\* Number of immediate children of the wide directory: more than the semaphore holds.
ManyChildren == 11

\* Six directories nested in one another, files at several levels.
Chain ==
    Dir(<<File(1),
          Dir(<<Dir(<<File(2),
                      Dir(<<Dir(<<File(3), Dir(<<File(4), NoStatFile(5)>>)>>)>>)>>)>>)>>)

SmallRoots ==
    { Missing,
      File(0), File(10), File(1536),
      LockedDir(<<File(3)>>),
      NoStatDir(<<File(3)>>),
      Dir(<<>>),
      Dir(<<File(5), Dir(<<File(3), Dir(<<NoStatFile(7), File(2)>>)>>), LockedDir(<<File(9)>>)>>),
      Dir(<<File(1024), Dir(<<>>), NoStatDir(<<File(4)>>), NoStatFile(8)>>),
      Dir(<<Chain, File(20)>>) }

WideRoot == Dir([i \in 1..ManyChildren |-> Dir(<<File(1), File(2)>>)])

MaxDepth == 5

Inputs == ((SmallRoots \cup {WideRoot}) \X (1..MaxDepth))

-----------------------------------------------------------------------------
(* AnalyzeDiskUsage: the calling goroutine *)

SemCap == 10

NoResult == [returned |-> FALSE]

NoRequest == [method |-> "(none)"]

NoResponse == [status |-> 0]

NoCall == [pc |-> "(none)"]

NotCalled == "(not called)"

\* &UsageResult{RootPath: rootPath, Error: err.Error()}: the other fields are zero.
ErrorResult(msg) ==
    [returned |-> TRUE, rootPath |-> "rootPath", totalSize |-> 0, totalStr |-> "",
     items |-> NilSlice, error |-> msg]

OkResult(total, its) ==
    [returned |-> TRUE, rootPath |-> "rootPath", totalSize |-> total,
     totalStr |-> FormatSize(Bytes(total)), items |-> MakeSlice(its), error |-> ""]

\* A goroutine as the go statement starts it, for entry e.
NewTask(e) ==
    [e |-> e, pc |-> "acquire", size |-> 0, children |-> NilSlice, sum |-> 0]

\* The goroutine t, moved on to the state u.
Moved(t, u) == (tasks (-) SetToBag({t})) (+) SetToBag({u})

\* Where the range loop stands once k of the entries have their goroutine.
LoopPc(k) == IF k < Len(fs.kids) THEN "spawn" ELSE "wait"

Init ==
    /\ \E in \in Inputs : fs = in[1] /\ depth = in[2]
    /\ pc = "stat"
    /\ idx = 0
    /\ tasks = EmptyBag
    /\ items = <<>>
    /\ totalSize = 0
    /\ mu = FALSE
    /\ wg = 0
    /\ semaphore = 0
    /\ result = NoResult
    /\ err = ""
    /\ fmtIn = Zero64
    /\ fmtOut = NotCalled
    /\ req = NoRequest
    /\ resp = NoResponse
    /\ other = NoCall

\* os.Stat(rootPath) without the return for a root that is no directory.
StatRootWithoutFileCase ==
    /\ pc = "stat"
    /\ IF ~fs.statOk
       THEN /\ result' = ErrorResult("stat rootPath: no such file or directory")
            /\ err' = "stat rootPath: no such file or directory"
            /\ pc' = "done"
       ELSE /\ pc' = "readdir"
            /\ UNCHANGED <<result, err>>
    /\ UNCHANGED <<fs, depth, idx, tasks, items, totalSize, mu, wg, semaphore,
                   fmtIn, fmtOut, req, resp, other>>

\* os.Stat(rootPath) and the two returns that follow it.
StatRoot ==
    /\ pc = "stat"
    /\ IF ~fs.statOk
       THEN /\ result' = ErrorResult("stat rootPath: no such file or directory")
            /\ err' = "stat rootPath: no such file or directory"
            /\ pc' = "done"
       ELSE IF ~fs.isDir
       THEN /\ result' = OkResult(fs.size, <<MkDirInfo(fs.size, FALSE, NilSlice)>>)
            /\ err' = ""
            /\ pc' = "done"
       ELSE /\ pc' = "readdir"
            /\ UNCHANGED <<result, err>>
    /\ UNCHANGED <<fs, depth, idx, tasks, items, totalSize, mu, wg, semaphore,
                   fmtIn, fmtOut, req, resp, other>>

\* os.ReadDir(rootPath) with its error dropped: the loop runs over no entries.
ReadRootIgnoringError ==
    /\ pc = "readdir"
    /\ pc' = IF fs.listOk THEN LoopPc(0) ELSE "wait"
    /\ UNCHANGED <<fs, depth, idx, tasks, items, totalSize, mu, wg, semaphore,
                   result, err, fmtIn, fmtOut, req, resp, other>>

\* os.ReadDir(rootPath), its error return, and the declarations before the loop.
ReadRoot ==
    /\ pc = "readdir"
    /\ IF ~fs.listOk
       THEN /\ result' = ErrorResult("open rootPath: permission denied")
            /\ err' = "open rootPath: permission denied"
            /\ pc' = "done"
       ELSE /\ pc' = LoopPc(0)
            /\ UNCHANGED <<result, err>>
    /\ UNCHANGED <<fs, depth, idx, tasks, items, totalSize, mu, wg, semaphore,
                   fmtIn, fmtOut, req, resp, other>>

\* The go statement with a closure over the loop variable in place of the parameter e:
\* the goroutine sees the entry of this or of a later iteration.
SpawnCapturingLoopVariable ==
    /\ pc = "spawn"
    /\ wg' = wg + 1
    /\ \E j \in (idx + 1)..Len(fs.kids) :
           tasks' = tasks (+) SetToBag({NewTask(fs.kids[j])})
    /\ idx' = idx + 1
    /\ pc' = LoopPc(idx + 1)
    /\ UNCHANGED <<fs, depth, items, totalSize, mu, semaphore, result, err,
                   fmtIn, fmtOut, req, resp, other>>

\* One iteration of the range loop: wg.Add(1) and the go statement.
Spawn ==
    /\ pc = "spawn"
    /\ wg' = wg + 1
    /\ tasks' = tasks (+) SetToBag({NewTask(fs.kids[idx + 1])})
    /\ idx' = idx + 1
    /\ pc' = LoopPc(idx + 1)
    /\ UNCHANGED <<fs, depth, items, totalSize, mu, semaphore, result, err,
                   fmtIn, fmtOut, req, resp, other>>

\* The join left out: the caller goes on while goroutines may still run.
WaitWithoutJoin ==
    /\ pc = "wait"
    /\ pc' = "sort"
    /\ UNCHANGED <<fs, depth, idx, tasks, items, totalSize, mu, wg, semaphore,
                   result, err, fmtIn, fmtOut, req, resp, other>>

\* wg.Wait() returns.
Wait ==
    /\ pc = "wait"
    /\ wg = 0
    /\ pc' = "sort"
    /\ UNCHANGED <<fs, depth, idx, tasks, items, totalSize, mu, wg, semaphore,
                   result, err, fmtIn, fmtOut, req, resp, other>>

\* sort.Slice(items, ...) and the final return.
SortAndReturn ==
    /\ pc = "sort"
    /\ items' = SortBySizeDesc(items)
    /\ result' = OkResult(totalSize, items')
    /\ err' = ""
    /\ pc' = "done"
    /\ UNCHANGED <<fs, depth, idx, tasks, totalSize, mu, wg, semaphore,
                   fmtIn, fmtOut, req, resp, other>>

-----------------------------------------------------------------------------
(* AnalyzeDiskUsage: the goroutine of one entry *)

\* The send on a channel whose buffer never fills.
AcquireWithoutBlocking(t) ==
    /\ t.pc = "acquire"
    /\ semaphore' = semaphore + 1
    /\ tasks' = Moved(t, [t EXCEPT !.pc = "compute"])
    /\ UNCHANGED <<fs, depth, pc, idx, items, totalSize, mu, wg, result, err,
                   fmtIn, fmtOut, req, resp, other>>

\* semaphore <- struct{}{}: blocks while the channel's buffer is full.
Acquire(t) ==
    /\ t.pc = "acquire"
    /\ semaphore < SemCap
    /\ semaphore' = semaphore + 1
    /\ tasks' = Moved(t, [t EXCEPT !.pc = "compute"])
    /\ UNCHANGED <<fs, depth, pc, idx, items, totalSize, mu, wg, result, err,
                   fmtIn, fmtOut, req, resp, other>>

\* The goroutine's computation with the test depth >= 1 in place of depth > 1.
ComputeExpandingAtDepthOne(t) ==
    /\ t.pc = "compute"
    /\ LET size == IF t.e.isDir THEN GetDirSize(t.e) ELSE EntrySize(t.e)
           children ==
               IF t.e.isDir /\ depth >= 1 THEN getChildrenInfo(t.e, depth - 1)
               ELSE NilSlice
       IN  tasks' = Moved(t, [t EXCEPT !.pc = "lock", !.size = size,
                                        !.children = children])
    /\ UNCHANGED <<fs, depth, pc, idx, items, totalSize, mu, wg, semaphore,
                   result, err, fmtIn, fmtOut, req, resp, other>>

RECURSIVE SizeWithinDepth(_, _)
RECURSIVE SizeWithinDepthIn(_, _, _)
\* A sizing walk that descends only as far as the expansion does.
SizeWithinDepth(node, d) ==
    IF ~node.statOk THEN 0
    ELSE IF ~node.isDir THEN node.size
    ELSE IF ~node.listOk \/ d = 0 THEN 0
    ELSE SizeWithinDepthIn(node.kids, 1, d)

SizeWithinDepthIn(kids, i, d) ==
    IF i > Len(kids) THEN 0
    ELSE SizeWithinDepth(kids[i], d - 1) + SizeWithinDepthIn(kids, i + 1, d)

\* The goroutine's computation with the sizing bounded by depth like the expansion.
ComputeWithinDepth(t) ==
    /\ t.pc = "compute"
    /\ LET size == IF t.e.isDir THEN SizeWithinDepth(t.e, depth) ELSE EntrySize(t.e)
           children ==
               IF t.e.isDir /\ depth > 1 THEN getChildrenInfo(t.e, depth - 1)
               ELSE NilSlice
       IN  tasks' = Moved(t, [t EXCEPT !.pc = "lock", !.size = size,
                                        !.children = children])
    /\ UNCHANGED <<fs, depth, pc, idx, items, totalSize, mu, wg, semaphore,
                   result, err, fmtIn, fmtOut, req, resp, other>>

\* The entry's size and children: GetDirSize and getChildrenInfo, or e.Info().
Compute(t) ==
    /\ t.pc = "compute"
    /\ LET size == IF t.e.isDir THEN GetDirSize(t.e) ELSE EntrySize(t.e)
           children ==
               IF t.e.isDir /\ depth > 1 THEN getChildrenInfo(t.e, depth - 1)
               ELSE NilSlice
       IN  tasks' = Moved(t, [t EXCEPT !.pc = "lock", !.size = size,
                                        !.children = children])
    /\ UNCHANGED <<fs, depth, pc, idx, items, totalSize, mu, wg, semaphore,
                   result, err, fmtIn, fmtOut, req, resp, other>>

\* The critical section entered without the mutex.
LockWithoutWaiting(t) ==
    /\ t.pc = "lock"
    /\ mu' = TRUE
    /\ tasks' = Moved(t, [t EXCEPT !.pc = "append"])
    /\ UNCHANGED <<fs, depth, pc, idx, items, totalSize, wg, semaphore, result,
                   err, fmtIn, fmtOut, req, resp, other>>

\* mu.Lock()
Lock(t) ==
    /\ t.pc = "lock"
    /\ ~mu
    /\ mu' = TRUE
    /\ tasks' = Moved(t, [t EXCEPT !.pc = "append"])
    /\ UNCHANGED <<fs, depth, pc, idx, items, totalSize, wg, semaphore, result,
                   err, fmtIn, fmtOut, req, resp, other>>

\* The append with mu.Unlock() placed right behind it, before totalSize += size.
AppendItemThenUnlock(t) ==
    /\ t.pc = "append"
    /\ items' = Append(items, MkDirInfo(t.size, t.e.isDir, t.children))
    /\ mu' = FALSE
    /\ tasks' = Moved(t, [t EXCEPT !.pc = "load"])
    /\ UNCHANGED <<fs, depth, pc, idx, totalSize, wg, semaphore, result,
                   err, fmtIn, fmtOut, req, resp, other>>

\* items = append(items, dirInfo)
AppendItem(t) ==
    /\ t.pc = "append"
    /\ items' = Append(items, MkDirInfo(t.size, t.e.isDir, t.children))
    /\ tasks' = Moved(t, [t EXCEPT !.pc = "load"])
    /\ UNCHANGED <<fs, depth, pc, idx, totalSize, mu, wg, semaphore, result,
                   err, fmtIn, fmtOut, req, resp, other>>

\* totalSize += size, the read of totalSize.
LoadTotal(t) ==
    /\ t.pc = "load"
    /\ tasks' = Moved(t, [t EXCEPT !.pc = "store", !.sum = totalSize + t.size])
    /\ UNCHANGED <<fs, depth, pc, idx, items, totalSize, mu, wg, semaphore,
                   result, err, fmtIn, fmtOut, req, resp, other>>

\* totalSize += size, the write of the sum (whose register is dead from here on).
StoreTotal(t) ==
    /\ t.pc = "store"
    /\ totalSize' = t.sum
    /\ tasks' = Moved(t, [t EXCEPT !.pc = "unlock", !.sum = 0])
    /\ UNCHANGED <<fs, depth, pc, idx, items, mu, wg, semaphore, result, err,
                   fmtIn, fmtOut, req, resp, other>>

\* mu.Unlock()
Unlock(t) ==
    /\ t.pc = "unlock"
    /\ mu' = FALSE
    /\ tasks' = Moved(t, [t EXCEPT !.pc = "release"])
    /\ UNCHANGED <<fs, depth, pc, idx, items, totalSize, wg, semaphore, result,
                   err, fmtIn, fmtOut, req, resp, other>>

\* The goroutine's end without the deferred receive: its slot is never given back.
ReleaseWithoutReceive(t) ==
    /\ t.pc = "release"
    /\ tasks' = Moved(t, [t EXCEPT !.pc = "done"])
    /\ UNCHANGED <<fs, depth, pc, idx, items, totalSize, mu, wg, semaphore, result,
                   err, fmtIn, fmtOut, req, resp, other>>

\* The deferred <-semaphore, which runs first of the two deferred calls.
Release(t) ==
    /\ t.pc = "release"
    /\ semaphore' = semaphore - 1
    /\ tasks' = Moved(t, [t EXCEPT !.pc = "done"])
    /\ UNCHANGED <<fs, depth, pc, idx, items, totalSize, mu, wg, result, err,
                   fmtIn, fmtOut, req, resp, other>>

\* The deferred wg.Done(); the goroutine ends.
Done(t) ==
    /\ t.pc = "done"
    /\ wg' = wg - 1
    /\ tasks' = tasks (-) SetToBag({t})
    /\ UNCHANGED <<fs, depth, pc, idx, items, totalSize, mu, semaphore, result,
                   err, fmtIn, fmtOut, req, resp, other>>

Next ==
    \/ StatRoot
    \/ ReadRoot
    \/ Spawn
    \/ Wait
    \/ SortAndReturn
    \/ \E t \in BagToSet(tasks) : Acquire(t)
    \/ \E t \in BagToSet(tasks) : Compute(t)
    \/ \E t \in BagToSet(tasks) : Lock(t)
    \/ \E t \in BagToSet(tasks) : AppendItem(t)
    \/ \E t \in BagToSet(tasks) : LoadTotal(t)
    \/ \E t \in BagToSet(tasks) : StoreTotal(t)
    \/ \E t \in BagToSet(tasks) : Unlock(t)
    \/ \E t \in BagToSet(tasks) : Release(t)
    \/ \E t \in BagToSet(tasks) : Done(t)

Spec == Init /\ [][Next]_vars

\* The steps whose work is a constant amount: those of the caller before its closing
\* sort, and those of a goroutine other than its size computation.
ShortStep ==
    \/ StatRoot
    \/ ReadRoot
    \/ Spawn
    \/ Wait
    \/ \E t \in BagToSet(tasks) :
          \/ Acquire(t) \/ Lock(t) \/ AppendItem(t) \/ LoadTotal(t)
          \/ StoreTotal(t) \/ Unlock(t) \/ Release(t) \/ Done(t)

\* Some goroutine finishes its size computation.
ComputeStep == \E t \in BagToSet(tasks) : Compute(t)

\* Compute(t) has no condition but t.pc = "compute", and SortAndReturn none but
\* pc = "sort"; both change the state whenever they are taken.
CanCompute == \E t \in BagToSet(tasks) : t.pc = "compute"
CanSort == pc = "sort"

\* The calls of Init, the wide root taken at the depths 1 and 2 only: it has nothing
\* below its grandchildren, so every depth from 2 on gives the same call.
InitFair == Init /\ (fs = WideRoot => depth <= 2)

\* The call under a scheduler that lets no step that can be taken wait forever: every
\* runnable goroutine is run in the end, and every file system operation returns.  The
\* two steps that walk or sort a whole tree have their weak fairness written out, with
\* their enabling conditions as above.
SpecFair ==
    /\ InitFair /\ [][Next]_vars
    /\ WF_vars(ShortStep)
    /\ ([]<>(~CanCompute) \/ []<><<ComputeStep>>_vars)
    /\ ([]<>(~CanSort) \/ []<><<SortAndReturn>>_vars)

-----------------------------------------------------------------------------
(* FormatSize called on its own *)

\* The digits the byte counts of a direct call are made of.
DigitValues == {0, 1, 10, 52, 512, 1023}

FormatInputs == [1..NumDigits -> DigitValues]

InitFormat ==
    /\ fmtIn \in FormatInputs
    /\ fmtOut = NotCalled
    /\ fs = Missing
    /\ depth = 1
    /\ pc = "idle"
    /\ idx = 0
    /\ tasks = EmptyBag
    /\ items = <<>>
    /\ totalSize = 0
    /\ mu = FALSE
    /\ wg = 0
    /\ semaphore = 0
    /\ result = NoResult
    /\ err = ""
    /\ req = NoRequest
    /\ resp = NoResponse
    /\ other = NoCall

CallFormatSize ==
    /\ fmtOut = NotCalled
    /\ fmtOut' = FormatSize(fmtIn)
    /\ UNCHANGED <<fs, depth, pc, idx, tasks, items, totalSize, mu, wg, semaphore,
                   result, err, fmtIn, req, resp, other>>

NextFormat == CallFormatSize

SpecFormat == InitFormat /\ [][NextFormat]_vars

-----------------------------------------------------------------------------
(* handleAnalyze: the HTTP handler in front of AnalyzeDiskUsage *)

\* The bytes a depth parameter is made of here: both signs, the digits at and next to
\* the ends of the accepted range, and a byte that is neither.
DepthChars == {"-", "+", "0", "1", "5", "6", "a"}

MaxDepthStrLen == 2

RECURSIVE SeqsUpTo(_, _)
SeqsUpTo(S, n) ==
    IF n = 0 THEN {<<>>}
    ELSE LET shorter == SeqsUpTo(S, n - 1)
         IN  shorter \cup {Append(q, c) : q \in shorter, c \in S}

DepthStrings == SeqsUpTo(DepthChars, MaxDepthStrLen)

IsDigit(c) == c \in {"0", "1", "2", "3", "4", "5", "6", "7", "8", "9"}

\* ch - '0'
DigitOf(c) ==
    CASE c = "0" -> 0 [] c = "1" -> 1 [] c = "2" -> 2 [] c = "3" -> 3 [] c = "4" -> 4
      [] c = "5" -> 5 [] c = "6" -> 6 [] c = "7" -> 7 [] c = "8" -> 8 [] c = "9" -> 9

RECURSIVE AtoiLoop(_, _)
\* n = n*10 + int(ch) over the bytes from left to right, n being the value so far.
AtoiLoop(digits, n) ==
    IF digits = <<>> THEN n
    ELSE AtoiLoop(Tail(digits), n * 10 + DigitOf(Head(digits)))

\* strconv.Atoi on a string short enough for its result to fit an int: one leading sign
\* is taken off, what is left must be one or more decimal digits, anything else is a
\* syntax error with the value 0.
Atoi(str) ==
    LET signed == str # <<>> /\ str[1] \in {"-", "+"}
        digits == IF signed THEN Tail(str) ELSE str
    IN  IF digits = <<>> \/ \E i \in 1..Len(digits) : ~IsDigit(digits[i])
        THEN [val |-> 0, err |-> TRUE]
        ELSE [val |-> IF str[1] = "-" THEN 0 - AtoiLoop(digits, 0)
                      ELSE AtoiLoop(digits, 0),
              err |-> FALSE]

\* What is at each path of the machine the server runs on.
Disk ==
    [p \in {"/", "/file", "/none", "/locked"} |->
        CASE p = "/" ->
                 Dir(<<File(5), Dir(<<File(3), Dir(<<File(2)>>)>>), LockedDir(<<File(9)>>)>>)
          [] p = "/file" -> File(1536)
          [] p = "/none" -> Missing
          [] p = "/locked" -> LockedDir(<<File(3)>>)]

\* r.Method, r.URL.Query().Get("path") and r.URL.Query().Get("depth"): Get returns ""
\* for a parameter that is missing as for one that is empty.
Requests ==
    [method : {"GET", "POST"}, path : DOMAIN Disk \cup {""}, depth : DepthStrings]

InitHandler ==
    /\ req \in Requests
    /\ resp = NoResponse
    /\ pc = "handler"
    /\ fs = Missing
    /\ depth = 1
    /\ idx = 0
    /\ tasks = EmptyBag
    /\ items = <<>>
    /\ totalSize = 0
    /\ mu = FALSE
    /\ wg = 0
    /\ semaphore = 0
    /\ result = NoResult
    /\ err = ""
    /\ fmtIn = Zero64
    /\ fmtOut = NotCalled
    /\ other = NoCall

\* The handler with the depth brought into the range instead of replaced by the default.
HandleAnalyzeClamping ==
    /\ pc = "handler"
    /\ IF req.method # "GET"
       THEN /\ resp' = [status |-> 405, body |-> "Method not allowed"]
            /\ pc' = "responded"
            /\ UNCHANGED <<fs, depth>>
       ELSE LET path == IF req.path = "" THEN "/" ELSE req.path
                d == Atoi(req.depth)
            IN  /\ fs' = Disk[path]
                /\ depth' = IF req.depth = <<>> \/ d.err THEN 1
                            ELSE IF d.val < 1 THEN 1
                            ELSE IF d.val > MaxDepth THEN MaxDepth
                            ELSE d.val
                /\ pc' = "stat"
                /\ UNCHANGED resp
    /\ UNCHANGED <<req, idx, tasks, items, totalSize, mu, wg, semaphore, result, err,
                   fmtIn, fmtOut, other>>

\* handleAnalyze up to its call of disk.AnalyzeDiskUsage(path, depth).
HandleAnalyze ==
    /\ pc = "handler"
    /\ IF req.method # "GET"
       THEN /\ resp' = [status |-> 405, body |-> "Method not allowed"]
            /\ pc' = "responded"
            /\ UNCHANGED <<fs, depth>>
       ELSE LET path == IF req.path = "" THEN "/" ELSE req.path
                d == Atoi(req.depth)
            IN  /\ fs' = Disk[path]
                /\ depth' = IF req.depth # <<>> /\ ~d.err /\ d.val > 0 /\ d.val <= MaxDepth
                            THEN d.val
                            ELSE 1
                /\ pc' = "stat"
                /\ UNCHANGED resp
    /\ UNCHANGED <<req, idx, tasks, items, totalSize, mu, wg, semaphore, result, err,
                   fmtIn, fmtOut, other>>

\* handleAnalyze from the return of AnalyzeDiskUsage: 400 with the error, or the result.
Respond ==
    /\ pc = "done"
    /\ req # NoRequest
    /\ resp' = IF err # "" THEN [status |-> 400, body |-> [error |-> err]]
               ELSE [status |-> 200, body |-> result]
    /\ pc' = "responded"
    /\ UNCHANGED <<fs, depth, req, idx, tasks, items, totalSize, mu, wg, semaphore,
                   result, err, fmtIn, fmtOut, other>>

NextHandler ==
    \/ HandleAnalyze
    \/ Respond
    \/ Next

SpecHandler == InitHandler /\ [][NextHandler]_vars

-----------------------------------------------------------------------------
(* Two calls of AnalyzeDiskUsage at once *)

\* var mu, var wg, items, totalSize, semaphore and the rest are declared in the body of
\* AnalyzeDiskUsage: every call has its own.  The variables above are those of the call
\* whose step is being taken; `other` keeps those of the second call meanwhile.
ThisCall ==
    [fs |-> fs, depth |-> depth, pc |-> pc, idx |-> idx, tasks |-> tasks,
     items |-> items, totalSize |-> totalSize, mu |-> mu, wg |-> wg,
     semaphore |-> semaphore, result |-> result, err |-> err]

\* A call as it is entered with the arguments in.
EnteredCall(in) ==
    [fs |-> in[1], depth |-> in[2], pc |-> "stat", idx |-> 0, tasks |-> EmptyBag,
     items |-> <<>>, totalSize |-> 0, mu |-> FALSE, wg |-> 0, semaphore |-> 0,
     result |-> NoResult, err |-> ""]

\* A directory with as many children as the semaphore has slots.
FullRoot == Dir([i \in 1..SemCap |-> File(1)])

SmallCalls ==
    {Dir(<<File(5), Dir(<<File(3)>>)>>), File(7), Missing, LockedDir(<<File(3)>>)}
        \X {1, 2}

\* The arguments of the two calls.
CallPairs ==
    (SmallCalls \X SmallCalls) \cup {<< <<FullRoot, 1>>, <<Dir(<<File(2)>>), 1>> >>}

InitTwo ==
    /\ \E pair \in CallPairs :
          /\ fs = pair[1][1]
          /\ depth = pair[1][2]
          /\ other = EnteredCall(pair[2])
    /\ pc = "stat"
    /\ idx = 0
    /\ tasks = EmptyBag
    /\ items = <<>>
    /\ totalSize = 0
    /\ mu = FALSE
    /\ wg = 0
    /\ semaphore = 0
    /\ result = NoResult
    /\ err = ""
    /\ fmtIn = Zero64
    /\ fmtOut = NotCalled
    /\ req = NoRequest
    /\ resp = NoResponse

\* The two calls with one semaphore between them, as a package-level channel would be.
SwitchSharingSemaphore ==
    /\ other # NoCall
    /\ fs' = other.fs
    /\ depth' = other.depth
    /\ pc' = other.pc
    /\ idx' = other.idx
    /\ tasks' = other.tasks
    /\ items' = other.items
    /\ totalSize' = other.totalSize
    /\ mu' = other.mu
    /\ wg' = other.wg
    /\ semaphore' = semaphore
    /\ result' = other.result
    /\ err' = other.err
    /\ other' = ThisCall
    /\ UNCHANGED <<fmtIn, fmtOut, req, resp>>

\* The scheduler turns from the goroutines of one call to those of the other: the next
\* steps work on the other call's locals.
Switch ==
    /\ other # NoCall
    /\ fs' = other.fs
    /\ depth' = other.depth
    /\ pc' = other.pc
    /\ idx' = other.idx
    /\ tasks' = other.tasks
    /\ items' = other.items
    /\ totalSize' = other.totalSize
    /\ mu' = other.mu
    /\ wg' = other.wg
    /\ semaphore' = other.semaphore
    /\ result' = other.result
    /\ err' = other.err
    /\ other' = ThisCall
    /\ UNCHANGED <<fmtIn, fmtOut, req, resp>>

NextTwo ==
    \/ Switch
    \/ Next

SpecTwo == InitTwo /\ [][NextTwo]_vars

-----------------------------------------------------------------------------
(* What the formatted sizes are measured against *)

UnitName(j) == <<"B", "KB", "MB", "GB", "TB">>[j]

\* The place of the selected unit: the highest non-zero digit, B for 0.
UnitPlace(bytes) ==
    IF \A j \in 1..NumDigits : bytes[j] = 0 THEN 1
    ELSE CHOOSE j \in 1..NumDigits :
             bytes[j] # 0 /\ \A i \in (j + 1)..NumDigits : bytes[i] = 0

\* The value scaled to the selected unit is an exact integer.
ScaledIsInteger(bytes) == \A j \in 1..(UnitPlace(bytes) - 1) : bytes[j] = 0

\* The integer part of the value scaled to the selected unit.
ScaledInteger(bytes) == bytes[UnitPlace(bytes)]

\* floor(b * 100 / unit) - 100 * floor(b / unit)
ScaledHundredths(bytes) == FracTimes100(bytes, UnitPlace(bytes) - 1)

RECURSIVE Decimal(_)
\* The full decimal representation of n >= 0.
Decimal(n) ==
    IF n < 10 THEN DigitChar(n) ELSE Decimal(n \div 10) \o DigitChar(n % 10)

\* Up to two fractional digits: none for 0 hundredths, one for whole tenths.
FractionText(h) ==
    IF h = 0 THEN ""
    ELSE IF h % 10 = 0 THEN "." \o DigitChar(h \div 10)
    ELSE "." \o DigitChar(h \div 10) \o DigitChar(h % 10)

\* C9: a byte count whose value scaled to the selected unit is an exact integer n
\* is formatted as the full decimal representation of n, a space and the unit.
C9_WholeValueInFull ==
    (fmtOut # NotCalled /\ ScaledIsInteger(fmtIn))
        => fmtOut = Decimal(ScaledInteger(fmtIn)) \o " " \o UnitName(UnitPlace(fmtIn))

\* C10: a byte count whose scaled value is not an exact integer is formatted with
\* up to two fractional digits after '.', the hundredths being floor(b*100/unit), so
\* that 1536 gives "1.5 KB".
C10_FractionUpToTwoDigits ==
    /\ (fmtOut # NotCalled /\ ~ScaledIsInteger(fmtIn))
           => fmtOut = Decimal(ScaledInteger(fmtIn))
                           \o FractionText(ScaledHundredths(fmtIn))
                           \o " " \o UnitName(UnitPlace(fmtIn))
    /\ (fmtOut # NotCalled /\ fmtIn = <<512, 1, 0, 0, 0>>) => fmtOut = "1.5 KB"

-----------------------------------------------------------------------------
(* What the results of AnalyzeDiskUsage are measured against *)

RECURSIVE SumOfSizes(_)
\* The sum of the size fields of a sequence of entries.
SumOfSizes(s) == IF s = <<>> THEN 0 ELSE s[1].size + SumOfSizes(Tail(s))

RECURSIVE ReadableBytes(_)
RECURSIVE ReadableBytesIn(_, _)
\* The byte lengths of the files at or below a node that can be reached: a file counts
\* when it can be stat'ed, a directory's files when the directory can be stat'ed and listed.
ReadableBytes(node) ==
    CASE ~node.statOk -> 0
      [] node.statOk /\ ~node.isDir -> node.size
      [] node.statOk /\ node.isDir /\ ~node.listOk -> 0
      [] OTHER -> ReadableBytesIn(node.kids, 1)

ReadableBytesIn(kids, i) ==
    IF i > Len(kids) THEN 0
    ELSE ReadableBytes(kids[i]) + ReadableBytesIn(kids, i + 1)

\* Something at or below the node cannot be accessed.
RECURSIVE HasAccessFailure(_)
HasAccessFailure(node) ==
    \/ ~node.statOk
    \/ node.isDir /\ ~node.listOk
    \/ \E i \in 1..Len(node.kids) : HasAccessFailure(node.kids[i])

\* The sizes of a sequence of entries, as a bag.
RECURSIVE SizeBag(_)
SizeBag(s) ==
    IF s = <<>> THEN EmptyBag
    ELSE SetToBag({<<s[1].isDir, s[1].size>>}) (+) SizeBag(Tail(s))

\* What the immediate children of a directory hold, as a bag of <<isDir, bytes>>.
RECURSIVE ChildBytesBag(_, _)
ChildBytesBag(kids, i) ==
    IF i > Len(kids) THEN EmptyBag
    ELSE SetToBag({<<kids[i].isDir, ReadableBytes(kids[i])>>})
             (+) ChildBytesBag(kids, i + 1)

\* The goroutines of the given positions.
TasksAt(pcs) == {t \in BagToSet(tasks) : t.pc \in pcs}

\* How many goroutines stand at the given positions.
CountAt(pcs) == BagCardinality([t \in TasksAt(pcs) |-> CopiesIn(t, tasks)])

\* Between the semaphore's acquire and its release.
InFlightPcs == {"compute", "lock", "append", "load", "store", "unlock", "release"}

\* Between mu.Lock() and mu.Unlock().
LockedPcs == {"append", "load", "store", "unlock"}

\* The size and children of the entry are computed.
ComputedPcs == {"lock", "append", "load", "store", "unlock", "release", "done"}

RootIsDir == fs.statOk /\ fs.isDir /\ fs.listOk

RootIsFile == fs.statOk /\ ~fs.isDir

RootFails == ~fs.statOk \/ (fs.isDir /\ ~fs.listOk)

Returned == result.returned

\* C1: the total returned for a directory is the sum of the sizes of the items
\* returned, whatever the interleaving of the goroutines; and while no goroutine is
\* between Lock and Unlock the running total is the sum of the items appended so far.
C1_TotalIsSumOfItems ==
    /\ (Returned /\ RootIsDir) => result.totalSize = SumOfSizes(result.items.arr)
    /\ (RootIsDir /\ CountAt(LockedPcs) = 0) => totalSize = SumOfSizes(items)

C1_Witness ==
    /\ Returned /\ RootIsDir
    /\ Len(result.items.arr) >= 3
    /\ \E i, j \in 1..Len(result.items.arr) :
           i # j /\ result.items.arr[i].size > 0 /\ result.items.arr[j].size > 0

\* C2: never more than 10 goroutines are between the semaphore's acquire and its
\* release, also when the root has more than 10 children.
C2_AtMostTenInFlight == CountAt(InFlightPcs) <= 10

C2_Witness ==
    /\ Len(fs.kids) > 10
    /\ CountAt(InFlightPcs) = 10
    /\ CountAt({"acquire"}) >= 1
    /\ pc = "wait"

RECURSIVE SortedDeep(_)
\* A slice of entries is sorted by size descending, and so is every children slice in it.
SortedDeep(slice) ==
    /\ \A i \in 1..(Len(slice.arr) - 1) : slice.arr[i].size >= slice.arr[i + 1].size
    /\ \A i \in 1..Len(slice.arr) : SortedDeep(slice.arr[i].children)

\* C3: the items of a successful result are sorted by size descending, and so is
\* every children sequence at every level.
C3_SortedAtEveryLevel == (Returned /\ err = "") => SortedDeep(result.items)

C3_Witness ==
    /\ Returned /\ err = ""
    /\ \E i, j \in 1..Len(result.items.arr) :
           /\ i < j
           /\ result.items.arr[i].size > result.items.arr[j].size
           /\ Len(result.items.arr[i].children.arr) >= 2
           /\ result.items.arr[i].children.arr[1].size
                  > result.items.arr[i].children.arr[2].size

\* C4: the total and the size of each top-level entry are a function of the file
\* system alone: for every depth in 1..5 the size a goroutine computes for its entry,
\* the sizes of the items returned and the total are what the tree holds.
C4_SizesIndependentOfDepth ==
    /\ \A t \in TasksAt(ComputedPcs) : t.size = ReadableBytes(t.e)
    /\ (Returned /\ RootIsDir) =>
           /\ result.totalSize = ReadableBytesIn(fs.kids, 1)
           /\ SizeBag(result.items.arr) = ChildBytesBag(fs.kids, 1)

C4_Witness ==
    /\ Returned /\ RootIsDir
    /\ depth = 3
    /\ result.totalSize > 0
    /\ \E i \in 1..Len(result.items.arr) :
           LET c == result.items.arr[i].children
           IN  /\ ~c.nil
               /\ \E j \in 1..Len(c.arr) :
                      /\ ~c.arr[j].children.nil
                      /\ \E k \in 1..Len(c.arr[j].children.arr) :
                             /\ c.arr[j].children.arr[k].isDir
                             /\ c.arr[j].children.arr[k].children.nil
                             /\ c.arr[j].children.arr[k].size > 0

RECURSIVE UnexpandedSizes(_)
RECURSIVE UnexpandedSizesIn(_, _)
\* The sizes of the directory entries of a result tree that carry no children slice.
UnexpandedSizes(entry) ==
    IF ~entry.isDir THEN EmptyBag
    ELSE IF entry.children.nil THEN SetToBag({entry.size})
    ELSE UnexpandedSizesIn(entry.children.arr, 1)

UnexpandedSizesIn(arr, i) ==
    IF i > Len(arr) THEN EmptyBag
    ELSE UnexpandedSizes(arr[i]) (+) UnexpandedSizesIn(arr, i + 1)

RECURSIVE BytesWhereExpansionStops(_, _)
RECURSIVE BytesWhereExpansionStopsIn(_, _, _)
\* For the directories at which a breakdown of d more levels stops (the listing of
\* the directory at level d, or an unlistable directory above it): the bytes of all
\* readable files below each, however deep.
BytesWhereExpansionStops(node, d) ==
    IF ~node.isDir THEN EmptyBag
    ELSE IF d = 0 \/ ~node.listOk THEN SetToBag({ReadableBytes(node)})
    ELSE BytesWhereExpansionStopsIn(node.kids, 1, d)

BytesWhereExpansionStopsIn(kids, i, d) ==
    IF i > Len(kids) THEN EmptyBag
    ELSE BytesWhereExpansionStops(kids[i], d - 1)
             (+) BytesWhereExpansionStopsIn(kids, i + 1, d)

\* C5: a directory entry that is not expanded has as its size the bytes of all
\* readable files below it, those deeper than the requested depth included.
C5_UnexpandedDirHasSubtreeSize ==
    /\ \A t \in TasksAt(ComputedPcs) :
           (t.e.isDir /\ t.children.nil) => t.size = ReadableBytes(t.e)
    /\ (Returned /\ RootIsDir) =>
           UnexpandedSizesIn(result.items.arr, 1)
               = BytesWhereExpansionStopsIn(fs.kids, 1, depth)

C5_Witness ==
    /\ Returned /\ RootIsDir
    /\ depth = 2
    /\ \E i \in 1..Len(result.items.arr) :
           LET c == result.items.arr[i].children
           IN  /\ ~c.nil
               /\ \E j \in 1..Len(c.arr) :
                      /\ c.arr[j].isDir
                      /\ c.arr[j].children.nil
                      /\ c.arr[j].size = 9

\* C6: when the root cannot be stat'ed or, being a directory, cannot be listed, the
\* call returns an error and a result that holds the root path and the error message
\* only: no items, a total of 0, and no goroutine is ever started for a child.
C6_RootErrorResult ==
    RootFails =>
        /\ idx = 0 /\ tasks = EmptyBag /\ wg = 0 /\ items = <<>> /\ totalSize = 0
        /\ Returned =>
               /\ err # ""
               /\ result.error = err
               /\ result.rootPath = "rootPath"
               /\ Len(result.items.arr) = 0
               /\ result.totalSize = 0
               /\ result.totalStr = ""

C6_Witness ==
    /\ Returned
    /\ fs.statOk /\ fs.isDir /\ ~fs.listOk /\ Len(fs.kids) > 0
    /\ result.error = "open rootPath: permission denied"

\* C7: an access failure below a listable root never fails the call: it returns no
\* error, one entry for each immediate child, each entry's size being the bytes of
\* what is readable below it (nothing for an unreadable child), and their sum as total.
C7_ChildFailuresAbsorbed ==
    /\ RootIsDir => \A t \in TasksAt(ComputedPcs) :
           /\ t.size = ReadableBytes(t.e)
           /\ (~t.e.statOk \/ (t.e.isDir /\ ~t.e.listOk)) => t.size = 0
    /\ (Returned /\ RootIsDir) =>
           /\ err = "" /\ result.error = ""
           /\ Len(result.items.arr) = Len(fs.kids)
           /\ SizeBag(result.items.arr) = ChildBytesBag(fs.kids, 1)
           /\ result.totalSize = ReadableBytesIn(fs.kids, 1)

C7_Witness ==
    /\ Returned /\ RootIsDir /\ err = ""
    /\ \E i, j, k \in 1..Len(fs.kids) :
           /\ fs.kids[i].isDir /\ ~fs.kids[i].listOk /\ Len(fs.kids[i].kids) > 0
           /\ fs.kids[j].isDir /\ fs.kids[j].listOk /\ HasAccessFailure(fs.kids[j])
           /\ ~fs.kids[k].isDir /\ fs.kids[k].statOk
    /\ result.totalSize > 0
    /\ \E i \in 1..Len(result.items.arr) :
           result.items.arr[i].isDir /\ result.items.arr[i].size = 0

\* C8: for a root that is a plain file, at every depth, the call returns no error
\* and exactly one item, not a directory and without children, whose size and the
\* total are the file's length; no goroutine is started and no semaphore slot taken.
C8_FileRoot ==
    RootIsFile =>
        /\ idx = 0 /\ tasks = EmptyBag /\ wg = 0 /\ semaphore = 0 /\ ~mu
        /\ Returned =>
               /\ err = "" /\ result.error = ""
               /\ Len(result.items.arr) = 1
               /\ ~result.items.arr[1].isDir
               /\ result.items.arr[1].children.nil
               /\ result.items.arr[1].size = fs.size
               /\ result.totalSize = fs.size

C8_Witness ==
    /\ Returned /\ RootIsFile
    /\ depth = 5
    /\ fs.size = 1536
    /\ result.totalSize = 1536
    /\ Len(result.items.arr) = 1

\* C11: a call on a directory returns only after every goroutine has ended, and the
\* items returned hold exactly one entry for each immediate child, for no children,
\* for a few and for more than 10.
C11_ReturnsAfterJoinWithAllEntries ==
    /\ pc \in {"sort", "done"} => (tasks = EmptyBag /\ wg = 0)
    /\ (Returned /\ RootIsDir) =>
           /\ idx = Len(fs.kids)
           /\ Len(result.items.arr) = Len(fs.kids)
           /\ SizeBag(result.items.arr) = ChildBytesBag(fs.kids, 1)
           /\ SizeBag(items) = ChildBytesBag(fs.kids, 1)

C11_Witness ==
    /\ Returned /\ RootIsDir
    /\ Len(fs.kids) > 10
    /\ Len(result.items.arr) = Len(fs.kids)
    /\ tasks = EmptyBag

RECURSIVE RespectsDepth(_, _)
\* An entry at nesting level k carries children only if it is a directory and
\* k < depth, and so do the entries below it.
RespectsDepth(entry, k) ==
    /\ ~entry.children.nil => (entry.isDir /\ k < depth)
    /\ \A i \in 1..Len(entry.children.arr) : RespectsDepth(entry.children.arr[i], k + 1)

\* C13: in a result an entry at level k (the items are level 1) has a children
\* sequence only if it is a directory and k < depth: none at depth 1, and the tree
\* is never deeper than depth levels.
C13_ChildrenOnlyWithinDepth ==
    Returned => \A i \in 1..Len(result.items.arr) : RespectsDepth(result.items.arr[i], 1)

C13_Witness ==
    /\ Returned /\ RootIsDir
    /\ depth = 2
    /\ \E i \in 1..Len(result.items.arr) :
           LET c == result.items.arr[i].children
           IN  /\ ~c.nil
               /\ \E j \in 1..Len(c.arr) :
                      /\ c.arr[j].isDir /\ c.arr[j].children.nil /\ c.arr[j].size > 0
               /\ \E j \in 1..Len(c.arr) : ~c.arr[j].isDir

\* The positions at which a goroutine reads or writes items or totalSize.
SharedAccessPcs == {"append", "load", "store"}

\* C14: at most one goroutine at a time is between Lock and Unlock, a goroutine that
\* reads or writes items or totalSize holds the mutex, the mutex is held by nobody
\* else (so by no goroutine that is sizing its entry), and every change of items or
\* totalSize before the join happens under the mutex.
C14_MutexGuardsSharedState ==
    /\ [](/\ CountAt(LockedPcs) <= 1
          /\ CountAt(SharedAccessPcs) >= 1 => mu
          /\ mu => CountAt(LockedPcs) = 1)
    /\ [][(pc # "sort" /\ (items' # items \/ totalSize' # totalSize))
              => (mu /\ mu' /\ CountAt(LockedPcs) = 1)]_vars

C14_Witness ==
    /\ mu
    /\ CountAt({"store"}) = 1
    /\ CountAt({"lock"}) >= 1
    /\ CountAt({"compute"}) >= 1

\* The entries of a sequence, as a bag.
RECURSIVE EntryBag(_)
EntryBag(s) ==
    IF s = <<>> THEN EmptyBag ELSE SetToBag({s[1]}) (+) EntryBag(Tail(s))

\* The entries the immediate children of a directory give at a depth, as a bag.
RECURSIVE ExpectedEntryBag(_, _, _)
ExpectedEntryBag(kids, i, d) ==
    IF i > Len(kids) THEN EmptyBag
    ELSE SetToBag({MkDirInfo(ReadableBytes(kids[i]), kids[i].isDir,
                             IF kids[i].isDir /\ d > 1
                             THEN getChildrenInfo(kids[i], d - 1)
                             ELSE NilSlice)})
             (+) ExpectedEntryBag(kids, i + 1, d)

\* C16: over a fixed file system the total and the bag of top-level entries (size,
\* kind, children) returned are the same in every schedule; the items being sorted,
\* only the order among entries of equal size is left to the schedule.
C16_ResultIndependentOfSchedule ==
    (Returned /\ RootIsDir) =>
        /\ result.totalSize = ReadableBytesIn(fs.kids, 1)
        /\ result.totalStr = FormatSize(Bytes(ReadableBytesIn(fs.kids, 1)))
        /\ EntryBag(result.items.arr) = ExpectedEntryBag(fs.kids, 1, depth)
        /\ \A i \in 1..(Len(result.items.arr) - 1) :
               result.items.arr[i].size >= result.items.arr[i + 1].size
        /\ result.error = "" /\ err = ""

\* The listing has the file of 5 bytes before the directory of 5 bytes; here the
\* directory comes first.
C16_Witness ==
    /\ Returned /\ RootIsDir
    /\ Len(fs.kids) = 3 /\ ~fs.kids[1].isDir /\ fs.kids[1].size = 5
    /\ Len(result.items.arr) = 3
    /\ result.items.arr[1].isDir /\ result.items.arr[1].size = 5
    /\ ~result.items.arr[2].isDir /\ result.items.arr[2].size = 5

RECURSIVE SizeIsSumOfChildren(_)
\* An entry with a children slice has the sum of its children's sizes as its size,
\* and so has every entry below it.
SizeIsSumOfChildren(entry) ==
    /\ ~entry.children.nil => entry.size = SumOfSizes(entry.children.arr)
    /\ \A i \in 1..Len(entry.children.arr) : SizeIsSumOfChildren(entry.children.arr[i])

\* C18: every directory entry with a children sequence has the sum of its children's
\* sizes as its size, at every level, also with unreadable descendants.
C18_ExpandedDirIsSumOfChildren ==
    Returned => \A i \in 1..Len(result.items.arr) : SizeIsSumOfChildren(result.items.arr[i])

C18_Witness ==
    /\ Returned /\ RootIsDir
    /\ depth >= 3
    /\ \E i \in 1..Len(result.items.arr) :
           LET e == result.items.arr[i]
           IN  /\ ~e.children.nil /\ e.size = 5
               /\ \E j \in 1..Len(e.children.arr) :
                      LET c == e.children.arr[j]
                      IN  /\ ~c.children.nil /\ c.size = 2
                          /\ \E k \in 1..Len(c.children.arr) :
                                 ~c.children.arr[k].isDir /\ c.children.arr[k].size = 0

\* A goroutine leaves the wait for a slot only by taking one, and leaves the call only
\* from behind its release, the semaphore untouched by its leaving.
LeavesInOrder ==
    /\ CountAt({"acquire"})' < CountAt({"acquire"}) => semaphore' = semaphore + 1
    /\ BagCardinality(tasks') < BagCardinality(tasks)
           => (CountAt({"done"})' < CountAt({"done"}) /\ semaphore' = semaphore)

\* C17: under fair scheduling every call returns, for any number of children, more
\* than 10 included.  No goroutine is left waiting: a goroutine leaves the wait for a
\* slot only by taking one, leaves the call only after its release, and none is left at
\* the return.  Each goroutine holds exactly one slot from its acquire to its release
\* and none when it signals the WaitGroup, and at the return the semaphore is empty and
\* the mutex free.
C17_FairCallReturnsWithAllReleased ==
    /\ <>(pc = "done" /\ Returned)
    /\ [](/\ semaphore = CountAt(InFlightPcs)
          /\ wg = BagCardinality(tasks)
          /\ Returned => (semaphore = 0 /\ ~mu /\ tasks = EmptyBag /\ wg = 0))
    /\ [][LeavesInOrder]_vars

C17_Witness ==
    /\ Returned /\ RootIsDir
    /\ Len(fs.kids) > 10
    /\ Len(result.items.arr) = Len(fs.kids)
    /\ semaphore = 0 /\ ~mu /\ wg = 0

\* Whether the text writes an integer in decimal, with or without a sign.
WritesInteger(str) ==
    LET body == IF str # <<>> /\ str[1] \in {"-", "+"} THEN SubSeq(str, 2, Len(str))
                ELSE str
    IN  body # <<>> /\ \A i \in 1..Len(body) : IsDigit(body[i])

RECURSIVE Pow10(_)
Pow10(k) == IF k = 0 THEN 1 ELSE 10 * Pow10(k - 1)

RECURSIVE PlaceValues(_, _)
\* The digits of body from place i on, each weighted by the power of ten of its place.
PlaceValues(body, i) ==
    IF i > Len(body) THEN 0
    ELSE DigitOf(body[i]) * Pow10(Len(body) - i) + PlaceValues(body, i + 1)

\* The integer the text writes.
IntegerWritten(str) ==
    IF str[1] = "-" THEN 0 - PlaceValues(SubSeq(str, 2, Len(str)), 1)
    ELSE IF str[1] = "+" THEN PlaceValues(SubSeq(str, 2, Len(str)), 1)
    ELSE PlaceValues(str, 1)

Clamped(n, lo, hi) == IF n < lo THEN lo ELSE IF n > hi THEN hi ELSE n

\* The handler has served a GET request as far as its call of AnalyzeDiskUsage.
AnalyzeCalled == req # NoRequest /\ req.method = "GET" /\ pc # "handler"

\* C12 as stated: the depth passed to AnalyzeDiskUsage is the requested depth brought
\* into [1,5] (below 1 becomes 1, above 5 becomes 5), and 1 for a missing parameter.
C12_DepthIsRequestedDepthClamped ==
    AnalyzeCalled =>
        /\ req.depth = <<>> => depth = 1
        /\ WritesInteger(req.depth) => depth = Clamped(IntegerWritten(req.depth), 1, 5)

\* C12 amended: the depth passed to AnalyzeDiskUsage is the requested depth where the
\* parameter writes an integer from 1 to 5, and 1 in every other case: a parameter that
\* is missing, is not an integer, or is an integer below 1 or above 5.  Other methods
\* than GET are answered 405 without a call.
C12_DepthIsRequestedInRangeElseOne ==
    /\ AnalyzeCalled =>
           /\ depth \in 1..5
           /\ depth = IF WritesInteger(req.depth) /\ IntegerWritten(req.depth) \in 1..5
                      THEN IntegerWritten(req.depth)
                      ELSE 1
    /\ (req # NoRequest /\ req.method # "GET" /\ pc # "handler")
           => (resp.status = 405 /\ result = NoResult)

\* A request for depth 6 is answered with the analysis at depth 1.
C12_Witness ==
    /\ AnalyzeCalled
    /\ req.depth = <<"6">>
    /\ depth = 1
    /\ resp.status = 200
    /\ resp.body = result
    /\ Returned

\* The number of goroutines of a bag that stand at one of the positions.
CountIn(bag, pcs) ==
    BagCardinality([t \in {u \in BagToSet(bag) : u.pc \in pcs} |-> CopiesIn(t, bag)])

\* The call c is where its own goroutines alone have brought it: its semaphore holds
\* one value for each of its goroutines between acquire and release, its mutex is
\* locked exactly while one of them is between Lock and Unlock, its WaitGroup counts
\* them, and its items are those they have appended.
CallOnItsOwn(c) ==
    /\ c.semaphore = CountIn(c.tasks, InFlightPcs)
    /\ c.semaphore <= SemCap
    /\ CountIn(c.tasks, LockedPcs) = IF c.mu THEN 1 ELSE 0
    /\ c.wg = BagCardinality(c.tasks)
    /\ Len(c.items) = c.idx - CountIn(c.tasks, {"acquire", "compute", "lock", "append"})

\* What the call c returned is what AnalyzeDiskUsage returns for its arguments when it
\* runs alone.
ReturnedAsAlone(c) ==
    IF ~c.fs.statOk \/ (c.fs.isDir /\ ~c.fs.listOk)
    THEN /\ c.err # "" /\ c.result = ErrorResult(c.err)
    ELSE IF ~c.fs.isDir
    THEN /\ c.err = ""
         /\ c.result = OkResult(c.fs.size, <<MkDirInfo(c.fs.size, FALSE, NilSlice)>>)
    ELSE /\ c.err = "" /\ c.result.error = ""
         /\ c.result.totalSize = ReadableBytesIn(c.fs.kids, 1)
         /\ c.result.totalStr = FormatSize(Bytes(ReadableBytesIn(c.fs.kids, 1)))
         /\ EntryBag(c.result.items.arr) = ExpectedEntryBag(c.fs.kids, 1, c.depth)
         /\ \A i \in 1..(Len(c.result.items.arr) - 1) :
                c.result.items.arr[i].size >= c.result.items.arr[i + 1].size

\* C15: of two calls running at once, each has its semaphore, mutex, WaitGroup and
\* accumulators to itself (so a goroutine never waits for a slot or a lock the other
\* call holds, and the 10 slots are per call), and each returns what it returns alone.
C15_ConcurrentCallsShareNothing ==
    other # NoCall =>
        /\ CallOnItsOwn(ThisCall) /\ CallOnItsOwn(other)
        /\ Returned => ReturnedAsAlone(ThisCall)
        /\ other.result.returned => ReturnedAsAlone(other)

\* One call holds all ten of its slots and its mutex while a goroutine of the other
\* call holds a slot and the mutex of its own.
C15_Witness ==
    /\ other # NoCall
    /\ semaphore = SemCap /\ mu
    /\ other.semaphore >= 1 /\ other.mu

====
